---- MODULE Spec2Model ----
(***************************************************************************)
(* Model of billogram_api.py: the response classifier                      *)
(* (BillogramAPI._check_api_response), the error constructor               *)
(* (BillogramAPIError.__init__) and the remote object operations           *)
(* (refresh, update, delete, perform_event, get_invoice_pdf,               *)
(* get_attachment_pdf, the data property), the convenience events with     *)
(* create_and_send, and Query with iter_all.                               *)
(*                                                                         *)
(* Python values are tagged records: None, Str(s), Dict(f), List(q).       *)
(* A response body is Json(x) (text that parses to the value x) or Raw(b)  *)
(* (bytes that are not JSON), so resp.json() is a parse that can fail.     *)
(***************************************************************************)
EXTENDS Integers, Sequences, FiniteSets, TLC

VARIABLES resp, expect, outcome, pc, obj_kind, obj_data, lastOp, sent,
          calls, query, iter, hist

vars == <<resp, expect, outcome, pc, obj_kind, obj_data, lastOp, sent,
          calls, query, iter, hist>>

(***************************************************************************)
(* Bounds                                                                  *)
(***************************************************************************)
\* number of distinct leaf strings the server may put in a data object
NumValues == 2

\* the largest total_count a list response reports
MaxCount == 3

\* the largest number of objects on one page of a list response
MaxPageLen == 2

LeafNames == <<"v1", "v2", "v3", "v4">>

(***************************************************************************)
(* Python values                                                           *)
(***************************************************************************)
None == [t |-> "None"]
Str(s) == [t |-> "str", v |-> s]
Dict(f) == [t |-> "dict", v |-> f]
List(q) == [t |-> "list", v |-> q]
Num(n) == [t |-> "int", v |-> n]
Json(x) == [t |-> "json", v |-> x]
Raw(b) == [t |-> "bytes", v |-> b]

EmptyDict == Dict([k \in {} |-> None])

Values == {Str(LeafNames[i]) : i \in 1..NumValues}

\* every dict whose keys are a subset of keys and whose values are leaves
DictsOver(keys) == {Dict(f) : f \in UNION {[K -> Values] : K \in SUBSET keys}}

\* dict.get(key): None when the key is absent
Get(d, key) == IF key \in DOMAIN d.v THEN d.v[key] ELSE None

\* key in dict
Has(d, key) == key \in DOMAIN d.v

\* the dict without the given keys (del d[k] for each k present)
Without(d, keys) == Dict([k \in (DOMAIN d.v) \ keys |-> d.v[k]])

\* Python truthiness of the values the model uses
Truthy(x) ==
    CASE x.t = "None" -> FALSE
      [] x.t = "str" -> x.v # ""
      [] x.t = "dict" -> DOMAIN x.v # {}
      [] x.t = "list" -> Len(x.v) > 0
      [] x.t = "int" -> x.v # 0
      [] OTHER -> TRUE

(***************************************************************************)
(* Error classes, billogram_api.py:48-132                                  *)
(***************************************************************************)
ApiErrorClasses ==
    {"BillogramAPIError", "ServiceMalfunctioningError", "RequestFormError",
     "PermissionDeniedError", "InvalidAuthenticationError",
     "NotAuthorizedError", "RequestDataError", "UnknownFieldError",
     "MissingFieldError", "InvalidFieldCombinationError",
     "InvalidFieldValueError", "ReadOnlyFieldError",
     "InvalidObjectStateError", "ObjectNotFoundError",
     "ObjectNotAvailableYetError"}

\* errors of the interpreter, not of the library
UntypedErrors ==
    {"TypeError", "AttributeError", "ValueError", "KeyError", "RecursionError",
     "AssertionError", "StopIteration"}

\* direct base class of each error class
BaseClass(c) ==
    CASE c = "BillogramAPIError" -> "Exception"
      [] c \in {"ServiceMalfunctioningError", "RequestFormError",
                "PermissionDeniedError", "RequestDataError"}
            -> "BillogramAPIError"
      [] c \in {"InvalidAuthenticationError", "NotAuthorizedError"}
            -> "PermissionDeniedError"
      [] c \in {"UnknownFieldError", "MissingFieldError",
                "InvalidFieldCombinationError", "InvalidFieldValueError",
                "ReadOnlyFieldError", "InvalidObjectStateError",
                "ObjectNotFoundError"}
            -> "RequestDataError"
      [] c = "ObjectNotAvailableYetError" -> "ObjectNotFoundError"
      [] OTHER -> "Exception"

RECURSIVE IsSubclass(_, _)
IsSubclass(c, d) ==
    IF c = d THEN TRUE
    ELSE IF c = "Exception" THEN FALSE
    ELSE IsSubclass(BaseClass(c), d)

(***************************************************************************)
(* Outcomes of a call: a returned value or a raised exception              *)
(***************************************************************************)
Return(x) ==
    [kind |-> "return", value |-> x, cls |-> "-", message |-> None,
     field |-> None, field_path |-> None, extra_data |-> None]

\* an exception of the interpreter (TypeError, AttributeError, ...)
Untyped(c) ==
    [kind |-> "raise", value |-> None, cls |-> c, message |-> None,
     field |-> None, field_path |-> None, extra_data |-> None]

NoOutcome ==
    [kind |-> "none", value |-> None, cls |-> "-", message |-> None,
     field |-> None, field_path |-> None, extra_data |-> None]

\* a message the library writes itself
Lit(s) == [t |-> "lit", v |-> s]

\* '... {} - {}'.format(a, b)
Fmt(s, a, b) == [t |-> "fmt", v |-> s, args |-> <<a, b>>]

\* BillogramAPIError.__init__(self, message, **kwargs)
BillogramAPIError_init_nofield(cls, message, kwargs) ==
    [kind |-> "raise", value |-> None, cls |-> cls, message |-> message,
     field |-> None,
     field_path |-> Get(kwargs, "field_path"),
     extra_data |-> IF DOMAIN (Without(kwargs, {"field", "field_path"}).v) = {}
                    THEN None
                    ELSE Without(kwargs, {"field", "field_path"})]

BillogramAPIError_init(cls, message, kwargs) ==
    [kind |-> "raise", value |-> None, cls |-> cls, message |-> message,
     field |-> Get(kwargs, "field"),
     field_path |-> Get(kwargs, "field_path"),
     extra_data |-> IF DOMAIN (Without(kwargs, {"field", "field_path"}).v) = {}
                    THEN None
                    ELSE Without(kwargs, {"field", "field_path"})]

\* raise Cls('text'): no keyword arguments
RaiseMsg(cls, message) == BillogramAPIError_init(cls, message, EmptyDict)

\* raise Cls(**errordata): errordata must be a mapping that binds the
\* required positional parameter 'message'; anything else is a TypeError
RaiseKw(cls, errordata) ==
    IF errordata.t # "dict" THEN Untyped("TypeError")
    ELSE IF ~Has(errordata, "message") THEN Untyped("TypeError")
    ELSE BillogramAPIError_init(cls, errordata.v["message"],
                                Without(errordata, {"message"}))

(***************************************************************************)
(* Responses                                                               *)
(***************************************************************************)
JSON == "application/json"
PDF == "application/pdf"
HTML == "text/html"
NoHeader == "<no content-type header>"

\* resp.ok of the requests library: no 4xx or 5xx status code
ok(r) == ~(r.status_code >= 400 /\ r.status_code < 600)

\* resp.json(): the parsed body; Untyped("ValueError") when it is not JSON
IsJson(r) == r.content.t = "json"
json(r) == r.content.v

\* resp.headers['content-type'] raises KeyError when the header is absent
HasContentType(r) == r.content_type # NoHeader

(***************************************************************************)
(* BillogramAPI._check_api_response, billogram_api.py:199-292              *)
(***************************************************************************)
SME == "ServiceMalfunctioningError"

\* expect_content_type=None
ExpectNone == "None"

\* lines 201-203: a failed request, or no expectation, expects json
expected_content_type_ignoring_ok(r, e) ==
    IF e = ExpectNone THEN JSON ELSE e

expected_content_type(r, e) ==
    IF ~ok(r) \/ e = ExpectNone THEN JSON ELSE e

\* line 205: resp.status_code in range(500, 600)
is_server_error(r) == r.status_code >= 500 /\ r.status_code < 600

\* lines 206-219, e is the expected content type after lines 201-203
server_error(r, e) ==
    IF ~HasContentType(r) THEN Untyped("KeyError")
    ELSE IF r.content_type = e /\ e = JSON
    THEN IF ~IsJson(r) THEN Untyped("ValueError")
         ELSE IF json(r).t # "dict" THEN Untyped("AttributeError")
         ELSE IF Get(json(r), "data").t # "dict" THEN Untyped("AttributeError")
         ELSE RaiseMsg(SME,
                  Fmt("Billogram API reported a server error: {} - {}",
                      Get(json(r), "status"),
                      Get(Get(json(r), "data"), "message")))
    ELSE RaiseMsg(SME, Lit("Billogram API reported a server error"))

\* lines 222-232: the content type differs from the expected one
unexpected_content_type(r) ==
    IF r.content_type = JSON
    THEN IF ~IsJson(r) THEN Untyped("ValueError")
         ELSE IF json(r).t # "dict" THEN Untyped("AttributeError")
         ELSE IF Get(json(r), "status") = Str("NOT_AVAILABLE_YET")
         THEN RaiseMsg("ObjectNotAvailableYetError",
                       Lit("Object not available yet"))
         ELSE RaiseMsg(SME, Lit("Billogram API returned unexpected content type"))
    ELSE RaiseMsg(SME, Lit("Billogram API returned unexpected content type"))

\* lines 249-267: status code 403
forbidden_swapped(status) ==
    IF status = Str("PERMISSION_DENIED")
    THEN RaiseMsg("InvalidAuthenticationError",
                  Lit("The user/key combination is wrong, check the credentials used and possibly generate a new set"))
    ELSE IF status = Str("INVALID_AUTH")
    THEN RaiseMsg("NotAuthorizedError",
                  Lit("Not allowed to perform the requested operation"))
    ELSE IF status = Str("MISSING_AUTH")
    THEN RaiseMsg("RequestFormError", Lit("No authentication data was given"))
    ELSE RaiseMsg("PermissionDeniedError",
                  Fmt("Permission denied, status={}", status, None))

forbidden(status) ==
    IF status = Str("PERMISSION_DENIED")
    THEN RaiseMsg("NotAuthorizedError",
                  Lit("Not allowed to perform the requested operation"))
    ELSE IF status = Str("INVALID_AUTH")
    THEN RaiseMsg("InvalidAuthenticationError",
                  Lit("The user/key combination is wrong, check the credentials used and possibly generate a new set"))
    ELSE IF status = Str("MISSING_AUTH")
    THEN RaiseMsg("RequestFormError", Lit("No authentication data was given"))
    ELSE RaiseMsg("PermissionDeniedError",
                  Fmt("Permission denied, status={}", status, None))

\* lines 269-273: status code 404; both branches raise ObjectNotFoundError
not_found(data) ==
    IF Get(data, "status") = Str("NOT_AVAILABLE_YET")
    THEN RaiseMsg("ObjectNotFoundError", Lit("Object not available yet"))
    ELSE RaiseMsg("ObjectNotFoundError", Lit("Object not found"))

\* lines 284-292: the status table, .get(status, RequestDataError)
status_table(status) ==
    CASE status = Str("MISSING_QUERY_PARAMETER") -> "RequestFormError"
      [] status = Str("INVALID_QUERY_PARAMETER") -> "RequestFormError"
      [] status = Str("INVALID_PARAMETER") -> "InvalidFieldValueError"
      [] status = Str("INVALID_PARAMETER_COMBINATION")
            -> "InvalidFieldCombinationError"
      [] status = Str("READ_ONLY_PARAMETER") -> "ReadOnlyFieldError"
      [] status = Str("UNKNOWN_PARAMETER") -> "UnknownFieldError"
      [] status = Str("INVALID_OBJECT_STATE") -> "InvalidObjectStateError"
      [] OTHER -> "RequestDataError"

\* lines 249-292: the envelope data has a truthy status and a data key
classify_envelope_ok_first(r, data) ==
    IF Get(data, "status") = Str("OK") THEN Return(data)
    ELSE IF r.status_code = 403 THEN forbidden(Get(data, "status"))
    ELSE IF r.status_code = 404 THEN not_found(data)
    ELSE IF r.status_code = 405
    THEN RaiseMsg("RequestFormError", Lit("Invalid HTTP method"))
    ELSE RaiseKw(status_table(Get(data, "status")), Get(data, "data"))

classify_envelope(r, data) ==
    IF r.status_code = 403 THEN forbidden(Get(data, "status"))
    ELSE IF r.status_code = 404 THEN not_found(data)
    ELSE IF r.status_code = 405
    THEN RaiseMsg("RequestFormError", Lit("Invalid HTTP method"))
    ELSE IF Get(data, "status") = Str("OK") THEN Return(data)
    ELSE RaiseKw(status_table(Get(data, "status")), Get(data, "data"))

\* lines 234-247, then the rest
check_envelope(r, e) ==
    IF e = JSON
    THEN IF ~IsJson(r) THEN Untyped("ValueError")
         ELSE IF json(r).t # "dict" THEN Untyped("AttributeError")
         ELSE IF ~Truthy(Get(json(r), "status"))
         THEN RaiseMsg(SME, Lit("Response data missing status field"))
         ELSE IF ~Has(json(r), "data")
         THEN RaiseMsg(SME, Lit("Response data missing data field"))
         ELSE classify_envelope(r, json(r))
    ELSE Return(r.content)

\* lines 205-292 with the expected content type e of lines 201-203
check_with_expected(r, e) ==
    IF is_server_error(r) THEN server_error(r, e)
    ELSE IF ~HasContentType(r) THEN Untyped("KeyError")
    ELSE IF r.content_type # e THEN unexpected_content_type(r)
    ELSE check_envelope(r, e)

check_api_response(r, expect_content_type) ==
    check_with_expected(r, expected_content_type(r, expect_content_type))

(***************************************************************************)
(* The responses a server can send                                         *)
(***************************************************************************)
StatusCodes == {200, 400, 403, 404, 405, 500, 599}

ContentTypes == {JSON, PDF, HTML, NoHeader}

ExpectTypes == {ExpectNone, JSON, PDF}

StatusStrings ==
    {"", "OK", "NOT_AVAILABLE_YET", "PERMISSION_DENIED", "INVALID_AUTH",
     "MISSING_AUTH", "MISSING_QUERY_PARAMETER", "INVALID_QUERY_PARAMETER",
     "INVALID_PARAMETER", "INVALID_PARAMETER_COMBINATION",
     "READ_ONLY_PARAMETER", "UNKNOWN_PARAMETER", "INVALID_OBJECT_STATE",
     "MISSING_PARAMETER"}

ErrorKeys == {"message", "field", "field_path", "details"}

\* what the envelope's data key can hold: an object, null or an array
DataValues(keys) == DictsOver(keys) \cup {None, List(<< >>)}

\* envelopes with and without status, with and without data
Envelopes(keys) ==
    {Dict([status |-> Str(s), data |-> d]) :
        s \in StatusStrings, d \in DataValues(keys)}
    \cup {Dict([status |-> Str(s)]) : s \in StatusStrings}
    \cup {Dict([data |-> d]) : d \in DataValues(keys)}
    \cup {EmptyDict}

Bodies(keys) ==
    {Json(x) : x \in Envelopes(keys)} \cup {Json(List(<< >>)), Raw("%PDF")}

Responses ==
    [status_code : StatusCodes, content_type : ContentTypes,
     content : Bodies(ErrorKeys)]

NoResp == [status_code |-> 0, content_type |-> NoHeader, content |-> Raw("")]

NoRequest == [method |-> "-", url |-> "-", body |-> None]

\* one request of the requests library with the classifier's result
Req(method, url, body, params) ==
    [method |-> method, url |-> url, body |-> body, params |-> params]

Call(request, result) == [request |-> request, result |-> result]

\* Query.__init__, lines 453-458
NewQuery ==
    [filter |-> EmptyDict, order |-> EmptyDict, page_size |-> 100,
     count_cached |-> None]

\* no generator of iter_all exists
NoIter ==
    [pc |-> "none", qry |-> NewQuery, total_pages |-> 0, page_number |-> 0,
     page |-> << >>]

\* what has happened so far, for the properties only:
\*   loaded    a fetch, update or event of the object has succeeded
\*   arg       the argument the last convenience method was called with, or
\*             the value the last assignment to the query assigned
\*   listed    total_count of the latest list response the query got since
\*             its cached count was last cleared
\*   read      count was read since the query was created or its filter
\*             changed
\*   at_call   the query as it was when iter_all() was called
\*   count     the count the iteration computed its pages from
\*   fetched   number of pages the iteration has requested
\*   unyielded objects the server returned that were not yielded yet
NoHist ==
    [loaded |-> FALSE, arg |-> None, listed |-> None, read |-> FALSE,
     at_call |-> NewQuery, count |-> None, fetched |-> 0, unyielded |-> << >>]

(***************************************************************************)
(* One call of the classifier on an arbitrary response                     *)
(***************************************************************************)
Init ==
    /\ resp = NoResp
    /\ expect = ExpectNone
    /\ outcome = NoOutcome
    /\ pc = "idle"
    /\ obj_kind = "singleton"
    /\ obj_data = None
    /\ lastOp = "-"
    /\ sent = NoRequest
    /\ calls = << >>
    /\ query = NewQuery
    /\ iter = NoIter
    /\ hist = NoHist

Classify ==
    /\ pc = "idle"
    /\ \E r \in Responses, e \in ExpectTypes :
          /\ resp' = r
          /\ expect' = e
          /\ outcome' = check_api_response(r, e)
    /\ pc' = "classified"
    /\ UNCHANGED <<obj_kind, obj_data, lastOp, sent, calls, query, iter, hist>>

NextClassify == Classify

SpecClassify == Init /\ [][NextClassify]_vars

(***************************************************************************)
(* Remote objects: SingletonObject, SimpleObject, BillogramObject          *)
(* billogram_api.py:349-438, 646-789                                       *)
(***************************************************************************)
SnapshotKeys == {"id", "state"}

\* the data a snapshot can hold: whatever a response carried under 'data'
Snapshots == DataValues(SnapshotKeys)

\* SingletonObject._url (line 384) and SimpleObject._url (line 430) with
\* SimpleClass._url_of (lines 618-621): a collection member reads its id
\* field through __getitem__ and the data property; with _data None the
\* data property calls refresh(), which needs _url again
url_of(kind, data) ==
    IF kind = "singleton" THEN [ok |-> TRUE, url |-> <<"settings">>, err |-> "-"]
    ELSE IF data.t = "None"
    THEN [ok |-> FALSE, url |-> << >>, err |-> "RecursionError"]
    ELSE IF data.t = "list"
    THEN [ok |-> FALSE, url |-> << >>, err |-> "TypeError"]
    ELSE IF ~Has(data, "id")
    THEN [ok |-> FALSE, url |-> << >>, err |-> "KeyError"]
    ELSE [ok |-> TRUE, url |-> <<"billogram", data.v["id"].v>>, err |-> "-"]

\* dict.update: the keys of b win
Merged(a, b) ==
    IF a.t = "dict" /\ b.t = "dict"
    THEN Dict([k \in DOMAIN a.v \cup DOMAIN b.v |->
                  IF k \in DOMAIN b.v THEN b.v[k] ELSE a.v[k]])
    ELSE b

\* SingletonObject.refresh, lines 395-396: out is what api.get gave
refresh_merging(old, out) ==
    IF out.kind = "return" THEN Merged(old, out.value.v["data"]) ELSE old

refresh(old, out) ==
    IF out.kind = "return" THEN out.value.v["data"] ELSE old

\* SingletonObject.update, lines 401-402: out is what api.put gave
update_clearing(old, out) ==
    IF out.kind = "return" THEN out.value.v["data"] ELSE None

update(old, out) ==
    IF out.kind = "return" THEN out.value.v["data"] ELSE old

\* BillogramObject.perform_event, lines 660-661: out is what api.post gave
perform_event(old, out) ==
    IF out.kind = "return" THEN out.value.v["data"] ELSE old

\* base64.b64decode of the text s
b64decode(s) == Raw(<<"b64decode", s.v>>)

\* lines 779 and 789: base64.b64decode(resp['data']['content'])
pdf_content(out) ==
    IF out.kind # "return" THEN out
    ELSE IF out.value.v["data"].t # "dict" THEN Untyped("TypeError")
    ELSE IF ~Has(out.value.v["data"], "content") THEN Untyped("KeyError")
    ELSE Return(b64decode(out.value.v["data"].v["content"]))

(***************************************************************************)
(* The responses the object operations receive                             *)
(***************************************************************************)
Env(s, d) == Json(Dict([status |-> Str(s), data |-> d]))

R(c, ct, body) == [status_code |-> c, content_type |-> ct, content |-> body]

\* the data of an error envelope: empty, or a message and one more key
ErrorData ==
    {EmptyDict} \cup {Dict([message |-> m, state |-> m]) : m \in Values}

ObjResponses ==
    {R(200, JSON, Env("OK", d)) : d \in Snapshots}
    \cup {R(200, JSON, Env("OK", Dict([content |-> Str("v1")])))}
    \cup {R(403, JSON, Env("INVALID_AUTH", d)) : d \in ErrorData}
    \cup {R(400, JSON, Env("INVALID_OBJECT_STATE", d)) : d \in ErrorData}
    \cup {R(c, JSON, Env("NOT_AVAILABLE_YET", EmptyDict)) : c \in {200, 404}}
    \cup {R(c, JSON, Json(Dict([status |-> Str("NOT_AVAILABLE_YET")]))) :
            c \in {200, 404}}
    \cup {R(500, HTML, Raw("<html>")), R(200, PDF, Raw("%PDF"))}

\* payloads of update()
Payloads == {Dict([state |-> m]) : m \in Values}

\* events with their data: send(method) and send_to_collector()
Events ==
    {[name |-> "send", data |-> Dict([method |-> Str("Email")])],
     [name |-> "collect", data |-> None]}

Request(m, u, b) == [method |-> m, url |-> u, body |-> b]

(***************************************************************************)
(* Object operations: each is one whole call                               *)
(***************************************************************************)
\* the URL of the object cannot be built: the call raises before any
\* request is sent
UrlFails(op) ==
    /\ ~url_of(obj_kind, obj_data).ok
    /\ lastOp' = op
    /\ outcome' = Untyped(url_of(obj_kind, obj_data).err)
    /\ calls' = << >>
    /\ UNCHANGED <<resp, expect, pc, obj_kind, obj_data, sent, query, iter, hist>>

\* api.get / put / post / delete: the request goes out, the response r
\* comes back and is classified with the expected content type e
Exchange(op, method, suffix, body, r, e) ==
    /\ url_of(obj_kind, obj_data).ok
    /\ lastOp' = op
    /\ sent' = Request(method, url_of(obj_kind, obj_data).url \o suffix, body)
    /\ calls' = <<Call(Req(method, url_of(obj_kind, obj_data).url \o suffix,
                           body, None),
                       check_api_response(r, e))>>
    /\ resp' = r
    /\ expect' = e
    /\ UNCHANGED <<pc, obj_kind, query, iter>>

\* history: the object has data of a response once out is a success
Loaded(out) ==
    hist' = [hist EXCEPT !.loaded = hist.loaded \/ out.kind = "return"]

Refresh ==
    \/ UrlFails("refresh")
    \/ \E r \in ObjResponses :
          LET out == check_api_response(r, ExpectNone) IN
          /\ Exchange("refresh", "GET", << >>, None, r, ExpectNone)
          /\ outcome' = out
          /\ obj_data' = refresh(obj_data, out)
          /\ Loaded(out)

Update ==
    \/ UrlFails("update")
    \/ \E data \in Payloads, r \in ObjResponses :
          LET out == check_api_response(r, ExpectNone) IN
          /\ Exchange("update", "PUT", << >>, data, r, ExpectNone)
          /\ outcome' = out
          /\ obj_data' = update(obj_data, out)
          /\ Loaded(out)

Delete ==
    /\ obj_kind = "billogram"
    /\ \/ UrlFails("delete")
       \/ \E r \in ObjResponses :
             /\ Exchange("delete", "DELETE", << >>, None, r, ExpectNone)
             /\ outcome' = check_api_response(r, ExpectNone)
             /\ UNCHANGED <<obj_data, hist>>

PerformEvent ==
    /\ obj_kind = "billogram"
    /\ \/ UrlFails("perform_event")
       \/ \E evt \in Events, r \in ObjResponses :
             LET out == check_api_response(r, ExpectNone) IN
             /\ Exchange("perform_event", "POST", <<"command", evt.name>>,
                         evt.data, r, ExpectNone)
             /\ outcome' = out
             /\ obj_data' = perform_event(obj_data, out)
             /\ Loaded(out)

GetInvoicePdf ==
    /\ obj_kind = "billogram"
    /\ \/ UrlFails("get_invoice_pdf")
       \/ \E r \in ObjResponses :
             /\ Exchange("get_invoice_pdf", "GET", <<".pdf">>, None, r, JSON)
             /\ outcome' = pdf_content(check_api_response(r, JSON))
             /\ UNCHANGED <<obj_data, hist>>

GetAttachmentPdf ==
    /\ obj_kind = "billogram"
    /\ \/ UrlFails("get_attachment_pdf")
       \/ \E r \in ObjResponses :
             /\ Exchange("get_attachment_pdf", "GET", <<"attachment.pdf">>,
                         None, r, JSON)
             /\ outcome' = pdf_content(check_api_response(r, JSON))
             /\ UNCHANGED <<obj_data, hist>>

\* d[key] on the snapshot d
getitem(d, key) ==
    IF d.t # "dict" THEN Untyped("TypeError")
    ELSE IF ~Has(d, key) THEN Untyped("KeyError")
    ELSE Return(d.v[key])

NoKey == "<data>"

\* what a read gives: the snapshot itself or one of its fields
read_result(d, key) == IF key = NoKey THEN Return(d) ELSE getitem(d, key)

\* a call that reaches no exchange with the server has none to show
NoExchange == resp' = NoResp /\ expect' = ExpectNone /\ sent' = NoRequest

\* the data property, lines 386-391, read directly (key = NoKey) or by
\* __getitem__, lines 370-372: with _data None it calls refresh() first
ReadVia(op, key) ==
    \/ /\ obj_data # None
       /\ lastOp' = op
       /\ outcome' = read_result(obj_data, key)
       /\ calls' = << >>
       /\ NoExchange
       /\ UNCHANGED <<pc, obj_kind, obj_data, query, iter, hist>>
    \/ /\ obj_data = None
       /\ \/ UrlFails(op)
          \/ \E r \in ObjResponses :
                LET out == check_api_response(r, ExpectNone) IN
                /\ Exchange(op, "GET", << >>, None, r, ExpectNone)
                /\ obj_data' = refresh(obj_data, out)
                /\ outcome' = IF out.kind = "return"
                              THEN read_result(refresh(obj_data, out), key)
                              ELSE out
                /\ Loaded(out)

ReadData == ReadVia("data", NoKey)

GetItem == \E key \in SnapshotKeys : ReadVia("getitem", key)

\* SimpleObject.__getattr__, lines 432-433: self._data[key], no fetch
GetAttr ==
    /\ obj_kind = "billogram"
    /\ \E key \in SnapshotKeys :
          /\ lastOp' = "getattr"
          /\ outcome' = getitem(obj_data, key)
          /\ calls' = << >>
          /\ NoExchange
          /\ UNCHANGED <<pc, obj_kind, obj_data, query, iter, hist>>

\* the object is the settings singleton (lazy) or a billogram built from
\* the data of a response
InitObject ==
    /\ resp = NoResp
    /\ expect = ExpectNone
    /\ outcome = NoOutcome
    /\ lastOp = "-"
    /\ sent = NoRequest
    /\ pc = "idle"
    /\ calls = << >>
    /\ query = NewQuery
    /\ iter = NoIter
    /\ \/ obj_kind = "singleton" /\ obj_data = None /\ hist = NoHist
       \/ /\ obj_kind = "billogram" /\ obj_data \in Snapshots
          /\ hist = [NoHist EXCEPT !.loaded = TRUE]

Next ==
    \/ Refresh
    \/ Update
    \/ Delete
    \/ PerformEvent
    \/ GetInvoicePdf
    \/ GetAttachmentPdf
    \/ ReadData
    \/ GetItem
    \/ GetAttr

Spec == InitObject /\ [][Next]_vars

(***************************************************************************)
(* Convenience events of BillogramObject and BillogramClass.create_and_send,*)
(* billogram_api.py:664-760 and 843-861.  Assertions are enabled (the      *)
(* interpreter's default mode).                                            *)
(***************************************************************************)
Amounts == {-1, 0, 1}

Methods ==
    {Str("Email"), Str("Letter"), Str("Email+Letter"), Str("SMS"), Str(""),
     None}

\* line 745 and line 856
send_methods == {Str("Email"), Str("Letter"), Str("Email+Letter")}

\* line 731 and line 758
reminder_methods == {Str("Email"), Str("Letter")}

\* lines 669 and 677: amount > 0
positive_or_zero(amount) == amount >= 0

positive(amount) == amount > 0

\* what the server may answer to a create, an event or a delete
SendResponses ==
    {R(200, JSON, Env("OK", Dict([id |-> Str("v1")]))),
     R(200, JSON, Env("OK", Dict([id |-> Str("v2"), state |-> Str("v1")]))),
     R(200, JSON, Env("OK", EmptyDict)),
     R(400, JSON, Env("INVALID_OBJECT_STATE", Dict([message |-> Str("v1")]))),
     R(403, JSON, Env("INVALID_AUTH", EmptyDict)),
     R(500, HTML, Raw("<html>"))}

\* the data of the billogram to create
NewBillogram == Dict([state |-> Str("v1")])

\* a failed assert: the call raises before anything else happens
AssertFails(op, arg) ==
    /\ lastOp' = op
    /\ outcome' = Untyped("AssertionError")
    /\ calls' = << >>
    /\ hist' = [hist EXCEPT !.arg = arg]
    /\ UNCHANGED <<resp, expect, pc, obj_kind, obj_data, sent, query, iter>>

\* self.perform_event(name, data) as the body of the convenience method op
\* called with arg
SendEvent(op, arg, name, data) ==
    /\ lastOp' = op
    /\ UNCHANGED <<pc, obj_kind, query, iter>>
    /\ \/ /\ ~url_of(obj_kind, obj_data).ok
          /\ outcome' = Untyped(url_of(obj_kind, obj_data).err)
          /\ calls' = << >>
          /\ hist' = [hist EXCEPT !.arg = arg]
          /\ UNCHANGED <<resp, expect, obj_data, sent>>
       \/ /\ url_of(obj_kind, obj_data).ok
          /\ \E r \in SendResponses :
                LET out == check_api_response(r, ExpectNone)
                    url == url_of(obj_kind, obj_data).url \o <<"command", name>>
                IN  /\ sent' = Request("POST", url, data)
                    /\ calls' = <<Call(Req("POST", url, data, None), out)>>
                    /\ resp' = r
                    /\ expect' = ExpectNone
                    /\ outcome' = out
                    /\ obj_data' = perform_event(obj_data, out)
                    /\ hist' = [hist EXCEPT
                                  !.arg = arg,
                                  !.loaded = hist.loaded \/ out.kind = "return"]

\* lines 664-670
CreatePayment ==
    \E amount \in Amounts :
       IF positive(amount)
       THEN SendEvent("create_payment", Num(amount), "payment",
                      Dict([amount |-> Num(amount)]))
       ELSE AssertFails("create_payment", Num(amount))

\* lines 672-684
CreditAmount ==
    \E amount \in Amounts :
       IF positive(amount)
       THEN SendEvent("credit_amount", Num(amount), "credit",
                      Dict([mode |-> Str("amount"), amount |-> Num(amount)]))
       ELSE AssertFails("credit_amount", Num(amount))

\* lines 721-733
SendReminder ==
    \E method \in Methods :
       IF Truthy(method)
       THEN IF method \in reminder_methods
            THEN SendEvent("send_reminder", method, "remind",
                           Dict([method |-> method]))
            ELSE AssertFails("send_reminder", method)
       ELSE SendEvent("send_reminder", method, "remind", None)

\* lines 735-746
Send ==
    \E method \in Methods :
       IF method \in send_methods
       THEN SendEvent("send", method, "send", Dict([method |-> method]))
       ELSE AssertFails("send", method)

\* lines 748-760
Resend ==
    \E method \in Methods :
       IF Truthy(method)
       THEN IF method \in reminder_methods
            THEN SendEvent("resend", method, "resend",
                           Dict([method |-> method]))
            ELSE AssertFails("resend", method)
       ELSE SendEvent("resend", method, "resend", None)

\* lines 857-860: send raised out2, billogram.delete() gave out3
create_and_send_raise_swallowing(out2, out3) == out2

create_and_send_raise(out2, out3) ==
    IF out3.kind = "raise" THEN out3 ELSE out2

\* lines 843-861; the object at hand becomes the billogram it returns
CreateAndSend ==
    \E method \in Methods :
       IF method \notin send_methods
       THEN AssertFails("create_and_send", method)
       ELSE
         /\ lastOp' = "create_and_send"
         /\ expect' = ExpectNone
         /\ UNCHANGED <<pc, obj_kind, query, iter>>
         /\ \E r1 \in SendResponses :
              LET out1 == check_api_response(r1, ExpectNone)
                  c1 == Call(Req("POST", <<"billogram">>, NewBillogram, None),
                             out1)
              IN
              IF out1.kind = "raise"
              THEN /\ outcome' = out1
                   /\ calls' = <<c1>>
                   /\ resp' = r1
                   /\ sent' = Request("POST", <<"billogram">>, NewBillogram)
                   /\ hist' = [hist EXCEPT !.arg = method]
                   /\ UNCHANGED obj_data
              ELSE
              LET created == out1.value.v["data"]
                  u == url_of("billogram", created)
              IN
              IF ~u.ok
              THEN \* send raises on its URL, and so does delete
                   /\ outcome' = Untyped(u.err)
                   /\ calls' = <<c1>>
                   /\ resp' = r1
                   /\ sent' = Request("POST", <<"billogram">>, NewBillogram)
                   /\ hist' = [hist EXCEPT !.arg = method]
                   /\ UNCHANGED obj_data
              ELSE
              \E r2 \in SendResponses :
                LET out2 == check_api_response(r2, ExpectNone)
                    body == Dict([method |-> method])
                    c2 == Call(Req("POST", u.url \o <<"command", "send">>,
                                   body, None), out2)
                IN
                IF out2.kind = "return"
                THEN /\ outcome' = Return(perform_event(created, out2))
                     /\ calls' = <<c1, c2>>
                     /\ resp' = r2
                     /\ sent' = Request("POST", u.url \o <<"command", "send">>,
                                        body)
                     /\ obj_data' = perform_event(created, out2)
                     /\ hist' = [hist EXCEPT !.arg = method, !.loaded = TRUE]
                ELSE
                \E r3 \in SendResponses :
                  LET out3 == check_api_response(r3, ExpectNone)
                      c3 == Call(Req("DELETE", u.url, None, None), out3)
                  IN /\ outcome' = create_and_send_raise(out2, out3)
                     /\ calls' = <<c1, c2, c3>>
                     /\ resp' = r3
                     /\ sent' = Request("DELETE", u.url, None)
                     /\ hist' = [hist EXCEPT !.arg = method]
                     /\ UNCHANGED obj_data

\* a billogram built from the data of a response
InitSend ==
    /\ resp = NoResp
    /\ expect = ExpectNone
    /\ outcome = NoOutcome
    /\ lastOp = "-"
    /\ sent = NoRequest
    /\ pc = "idle"
    /\ calls = << >>
    /\ query = NewQuery
    /\ iter = NoIter
    /\ obj_kind = "billogram"
    /\ obj_data \in {Dict([id |-> Str("v1")]), EmptyDict}
    /\ hist = [NoHist EXCEPT !.loaded = TRUE]

NextSend ==
    \/ CreatePayment
    \/ CreditAmount
    \/ SendReminder
    \/ Send
    \/ Resend
    \/ CreateAndSend

SpecSend == InitSend /\ [][NextSend]_vars

(***************************************************************************)
(* Query, billogram_api.py:441-589.  The query is the record               *)
(* [filter, order, page_size, count_cached].                               *)
(***************************************************************************)
\* lines 517-522
filter_types == {Str("field"), Str("field-prefix"), Str("field-search"),
                 Str("special")}

\* line 540
order_directions == {Str("asc"), Str("desc")}

F(type, field, value) ==
    Dict([filter_type |-> type, filter_field |-> field, filter_value |-> value])

O(field, direction) ==
    Dict([order_field |-> field, order_direction |-> direction])

\* values assigned to filter: valid, empty, falsy, incomplete, of a bad type
FilterInputs ==
    {EmptyDict, None,
     F(Str("field"), Str("state"), Str("v1")),
     F(Str("special"), Str("search"), Str("v1")),
     F(Str("regex"), Str("state"), Str("v1")),
     Dict([filter_type |-> Str("field"), filter_value |-> Str("v1")])}

OrderInputs ==
    {EmptyDict, O(Str("id"), Str("asc")), O(Str("id"), Str("up")),
     Dict([order_field |-> Str("id")])}

\* values assigned to page_size: numbers, and text that is or is not a number
PageSizeInputs == {Num(0), Str("3"), Str("abc")}

\* arguments of make_filter and of the filter_* helpers
MakeFilterTypes == {Str("field-prefix"), Str("regex"), None}

MakeFilterFields == {Str("state"), None}

MakeFilterValues == {Str("v1"), None}

\* the page get_page is asked for
PageNumbers == {2}

\* lines 514-522: the two asserts of the filter setter
filter_ok_without_field(value) ==
    /\ value.t = "dict"
    /\ Has(value, "filter_type") /\ Has(value, "filter_value")
    /\ value.v["filter_type"] \in filter_types

filter_ok(value) ==
    /\ value.t = "dict"
    /\ Has(value, "filter_type") /\ Has(value, "filter_field")
    /\ Has(value, "filter_value")
    /\ value.v["filter_type"] \in filter_types

\* lines 524-526: the cached count after the filter was assigned
filter_count_keeping(q) == q.count_cached

filter_count(q) == None

\* the filter setter, lines 509-527: the query and the outcome it gives
set_filter(q, value) ==
    IF value = q.filter THEN [q |-> q, out |-> Return(None)]
    ELSE IF Truthy(value)
    THEN IF filter_ok(value)
         THEN [q |-> [q EXCEPT !.filter = value,
                               !.count_cached = filter_count(q)],
               out |-> Return(None)]
         ELSE [q |-> q, out |-> Untyped("AssertionError")]
    ELSE [q |-> [q EXCEPT !.filter = EmptyDict,
                          !.count_cached = filter_count(q)],
          out |-> Return(None)]

\* lines 537-540: the two asserts of the order setter
order_ok(value) ==
    /\ value.t = "dict"
    /\ Has(value, "order_field") /\ Has(value, "order_direction")
    /\ value.v["order_direction"] \in order_directions

\* the order setter, lines 533-541
set_order(q, value) ==
    IF Truthy(value)
    THEN IF order_ok(value)
         THEN [q |-> [q EXCEPT !.order = value], out |-> Return(None)]
         ELSE [q |-> q, out |-> Untyped("AssertionError")]
    ELSE [q |-> [q EXCEPT !.order = EmptyDict], out |-> Return(None)]

\* the decimal texts of the model with the numbers they denote
DecimalTexts == [s \in {"3"} |-> 3]

\* int(value), line 499: the number itself, the number a text denotes, or
\* an error
py_int(value) ==
    CASE value.t = "int" -> [ok |-> TRUE, v |-> value.v, err |-> "-"]
      [] value.t = "str" ->
           IF value.v \in DOMAIN DecimalTexts
           THEN [ok |-> TRUE, v |-> DecimalTexts[value.v], err |-> "-"]
           ELSE [ok |-> FALSE, v |-> 0, err |-> "ValueError"]
      [] OTHER -> [ok |-> FALSE, v |-> 0, err |-> "TypeError"]

\* line 500: assert value >= 1
page_size_ok_or_zero(n) == n >= 0

page_size_ok(n) == n >= 1

\* the page_size setter, lines 497-502
set_page_size(q, value) ==
    IF ~py_int(value).ok
    THEN [q |-> q, out |-> Untyped(py_int(value).err)]
    ELSE IF page_size_ok(py_int(value).v)
    THEN [q |-> [q EXCEPT !.page_size = py_int(value).v],
          out |-> Return(None)]
    ELSE [q |-> q, out |-> Untyped("AssertionError")]

\* lines 461-465 and 470-474: the parameters of the list request
query_args(q, page_number, page_size) ==
    Merged(Merged(Dict([page_size |-> IF Truthy(page_size) THEN page_size
                                      ELSE Num(q.page_size),
                        page |-> Num(page_number)]),
                  q.filter),
           q.order)

ListRequest(q, page_number, page_size) ==
    Req("GET", <<"billogram">>, None, query_args(q, page_number, page_size))

\* the objects the server lists on page k when it lists n of them: each
\* object names its page, and they are not in the order of their ids
PageOf(k, n) == [i \in 1..n |-> Dict([id |-> Num(10 * k + (n - i))])]

ListEnv(data, total) ==
    Json(Dict([status |-> Str("OK"), data |-> List(data),
               meta |-> Dict([total_count |-> Num(total)])]))

\* what the server may answer to the request of a count read, which asks
\* for one object
CountResponses ==
    {R(200, JSON, ListEnv(PageOf(1, IF c = 0 THEN 0 ELSE 1), c)) :
        c \in 0..MaxCount}
    \cup {R(200, JSON, Env("OK", List(PageOf(1, 1)))),
          R(403, JSON, Env("INVALID_AUTH", EmptyDict)),
          R(500, HTML, Raw("<html>"))}

\* what the server may answer to the list request for page k
ListResponses(k) ==
    {R(200, JSON, ListEnv(PageOf(k, n), c)) :
        n \in 0..MaxPageLen, c \in {0, MaxCount}}
    \cup {R(200, JSON, Env("OK", List(PageOf(k, 1)))),
          R(403, JSON, Env("INVALID_AUTH", EmptyDict))}

\* lines 466-468: what _make_query returns or raises when api.get gave out
make_query(out) ==
    IF out.kind = "raise" THEN out
    ELSE IF ~Has(out.value, "meta") THEN Untyped("KeyError")
    ELSE Return(out.value)

\* line 467: the cached count after _make_query
make_query_count_keeping(q, out) == q.count_cached

make_query_count(q, out) ==
    IF make_query(out).kind = "return"
    THEN out.value.v["meta"].v["total_count"]
    ELSE q.count_cached

\* history: the filter was changed by an accepted assignment of a value
\* unequal to the current filter
FilterChanged(value) ==
    value # query.filter /\ set_filter(query, value).out.kind = "return"

\* history: the latest successful list response since the filter changed
Listed(out) ==
    IF make_query(out).kind = "return"
    THEN out.value.v["meta"].v["total_count"]
    ELSE hist.listed

\* self.filter = value inside the call op that was given arg
AssignFilterAs(op, value, arg) ==
    /\ lastOp' = op
    /\ query' = set_filter(query, value).q
    /\ outcome' = set_filter(query, value).out
    /\ calls' = << >>
    /\ hist' = IF FilterChanged(value)
               THEN [hist EXCEPT !.arg = arg, !.listed = None, !.read = FALSE]
               ELSE [hist EXCEPT !.arg = arg]
    /\ NoExchange
    /\ UNCHANGED <<pc, obj_kind, obj_data, iter>>

\* self.filter = value, by the caller
AssignFilter(op, value) == AssignFilterAs(op, value, value)

SetFilter == \E value \in FilterInputs : AssignFilter("filter", value)

\* the three arguments of make_filter
Args(type, field, value) == [t |-> "args", v |-> <<type, field, value>>]

\* lines 545-552: the value make_filter assigns to self.filter
make_filter_value_unchecked(type, field, value) == F(type, field, value)

make_filter_value(type, field, value) ==
    IF None \in {type, field, value} THEN EmptyDict
    ELSE F(type, field, value)

\* lines 543-553
MakeFilter ==
    \E type \in MakeFilterTypes, field \in MakeFilterFields,
       value \in MakeFilterValues :
       AssignFilterAs("make_filter", make_filter_value(type, field, value),
                      Args(type, field, value))

\* lines 560-574: make_filter with the type of the helper op
FilterHelper(op, type) ==
    \E field \in MakeFilterFields, value \in MakeFilterValues :
       AssignFilterAs(op, make_filter_value(type, field, value),
                      Args(type, field, value))

FilterField == FilterHelper("filter_field", Str("field"))

FilterPrefix == FilterHelper("filter_prefix", Str("field-prefix"))

FilterSearch == FilterHelper("filter_search", Str("field-search"))

FilterSpecial == FilterHelper("filter_special", Str("special"))

\* lines 576-578
Search ==
    \E search_terms \in MakeFilterValues :
       AssignFilterAs("search",
                      make_filter_value(Str("special"), Str("search"),
                                        search_terms),
                      Args(Str("special"), Str("search"), search_terms))

\* lines 555-558
RemoveFilter == AssignFilter("remove_filter", EmptyDict)

\* self.order = value
AssignOrder(value) ==
    /\ lastOp' = "order"
    /\ query' = set_order(query, value).q
    /\ outcome' = set_order(query, value).out
    /\ calls' = << >>
    /\ hist' = [hist EXCEPT !.arg = value]
    /\ NoExchange
    /\ UNCHANGED <<pc, obj_kind, obj_data, iter>>

SetOrder == \E value \in OrderInputs : AssignOrder(value)

\* self.page_size = value
AssignPageSize(value) ==
    /\ lastOp' = "page_size"
    /\ query' = set_page_size(query, value).q
    /\ outcome' = set_page_size(query, value).out
    /\ calls' = << >>
    /\ hist' = [hist EXCEPT !.arg = value]
    /\ NoExchange
    /\ UNCHANGED <<pc, obj_kind, obj_data, iter>>

SetPageSize == \E value \in PageSizeInputs : AssignPageSize(value)

\* the count property, lines 476-484
ReadCount ==
    /\ lastOp' = "count"
    /\ UNCHANGED <<pc, obj_kind, obj_data, iter>>
    /\ \/ /\ query.count_cached # None
          /\ outcome' = Return(query.count_cached)
          /\ calls' = << >>
          /\ hist' = [hist EXCEPT !.read = TRUE]
          /\ UNCHANGED <<resp, expect, sent, query>>
       \/ /\ query.count_cached = None
          /\ \E r \in CountResponses :
                LET out == check_api_response(r, ExpectNone) IN
                /\ calls' = <<Call(ListRequest(query, 1, Num(1)), out)>>
                /\ sent' = Request("GET", <<"billogram">>, None)
                /\ resp' = r
                /\ expect' = ExpectNone
                /\ query' = [query EXCEPT
                               !.count_cached = make_query_count(query, out)]
                /\ outcome' = IF make_query(out).kind = "return"
                              THEN Return(make_query_count(query, out))
                              ELSE make_query(out)
                /\ hist' = [hist EXCEPT !.read = TRUE, !.listed = Listed(out)]

\* lines 580-589
GetPage ==
    \E page_number \in PageNumbers :
       \E r \in ListResponses(page_number) :
          LET out == check_api_response(r, ExpectNone) IN
          /\ lastOp' = "get_page"
          /\ calls' = <<Call(ListRequest(query, page_number, None), out)>>
          /\ sent' = Request("GET", <<"billogram">>, None)
          /\ resp' = r
          /\ expect' = ExpectNone
          /\ query' = [query EXCEPT
                         !.count_cached = make_query_count(query, out)]
          /\ outcome' = IF make_query(out).kind = "return"
                        THEN Return(out.value.v["data"])
                        ELSE make_query(out)
          /\ hist' = [hist EXCEPT !.listed = Listed(out)]
          /\ UNCHANGED <<pc, obj_kind, obj_data, iter>>

\* a new query, lines 453-458
InitQuery ==
    /\ resp = NoResp
    /\ expect = ExpectNone
    /\ outcome = NoOutcome
    /\ lastOp = "-"
    /\ sent = NoRequest
    /\ pc = "idle"
    /\ calls = << >>
    /\ query = NewQuery
    /\ iter = NoIter
    /\ obj_kind = "billogram"
    /\ obj_data = None
    /\ hist = NoHist

NextQuery ==
    \/ SetFilter
    \/ MakeFilter
    \/ FilterField
    \/ FilterPrefix
    \/ FilterSearch
    \/ FilterSpecial
    \/ Search
    \/ RemoveFilter
    \/ SetOrder
    \/ SetPageSize
    \/ ReadCount
    \/ GetPage

SpecQuery == InitQuery /\ [][NextQuery]_vars

(***************************************************************************)
(* Query.iter_all, billogram_api.py:591-601, a generator: its body runs    *)
(* inside the next() calls of the consumer.  iter.pc is the position of    *)
(* the generator: created (iter_all() returned it, the body has not        *)
(* started), loop (inside a next() call, at the head of the loop over the  *)
(* pages), suspended (at the yield), done, failed.  The caller can touch   *)
(* the original query whenever the generator is not inside a next().       *)
(***************************************************************************)
\* lines 486-490, with the count at hand
total_pages_floor(q) == q.count_cached.v \div q.page_size

total_pages(q) == (q.count_cached.v + q.page_size - 1) \div q.page_size

\* line 598: range(1, qry.total_pages+1) is evaluated once; it is the
\* generator, with the pages it was given at the start
more_pages_recounting(it) == it.page_number < total_pages(it.qry)

more_pages(it) == it.page_number < it.total_pages

\* the query iter_all() is called on
IterPageSizes == {1, 2, 100}

IterQueries ==
    {[filter |-> EmptyDict, order |-> EmptyDict, page_size |-> p,
      count_cached |-> c] :
        p \in IterPageSizes, c \in {None} \cup {Num(n) : n \in 0..MaxCount}}

\* line 591: the call gives the generator and runs nothing of the body
IterAll ==
    /\ iter.pc = "none"
    /\ lastOp' = "iter_all"
    /\ iter' = [NoIter EXCEPT !.pc = "created"]
    /\ outcome' = Return(None)
    /\ calls' = << >>
    /\ hist' = [hist EXCEPT !.at_call = query]
    /\ UNCHANGED <<resp, expect, pc, obj_kind, obj_data, sent, query>>

\* lines 595-598, at the first next(): the copy, and total_pages of the
\* copy, which reads its count
IterStart ==
    /\ iter.pc = "created"
    /\ lastOp' = "next"
    /\ UNCHANGED <<pc, obj_kind, obj_data, query>>
    /\ \/ /\ query.count_cached # None
          /\ iter' = [pc |-> "loop", qry |-> query,
                      total_pages |-> total_pages(query), page_number |-> 0,
                      page |-> << >>]
          /\ outcome' = NoOutcome
          /\ calls' = << >>
          /\ hist' = [hist EXCEPT !.count = query.count_cached]
          /\ UNCHANGED <<resp, expect, sent>>
       \/ /\ query.count_cached = None
          /\ \E r \in CountResponses :
                LET out == check_api_response(r, ExpectNone)
                    qry == [query EXCEPT
                              !.count_cached = make_query_count(query, out)]
                IN  /\ calls' = <<Call(ListRequest(query, 1, Num(1)), out)>>
                    /\ sent' = Request("GET", <<"billogram">>, None)
                    /\ resp' = r
                    /\ expect' = ExpectNone
                    /\ IF make_query(out).kind = "return"
                       THEN /\ iter' = [pc |-> "loop", qry |-> qry,
                                        total_pages |-> total_pages(qry),
                                        page_number |-> 0, page |-> << >>]
                            /\ outcome' = NoOutcome
                            /\ hist' = [hist EXCEPT !.count = qry.count_cached]
                       ELSE /\ iter' = [iter EXCEPT !.pc = "failed"]
                            /\ outcome' = make_query(out)
                            /\ hist' = hist

\* lines 598-601, at the head of the loop: the next page is fetched and its
\* first object yielded, or the generator ends
IterFetch ==
    /\ iter.pc = "loop"
    /\ lastOp' = "next"
    /\ UNCHANGED <<pc, obj_kind, obj_data, query>>
    /\ \/ /\ ~more_pages(iter)
          /\ iter' = [iter EXCEPT !.pc = "done"]
          /\ outcome' = Untyped("StopIteration")
          /\ calls' = << >>
          /\ UNCHANGED <<resp, expect, sent, hist>>
       \/ /\ more_pages(iter)
          /\ \E r \in ListResponses(iter.page_number + 1) :
                LET out == check_api_response(r, ExpectNone)
                    qry == [iter.qry EXCEPT
                              !.count_cached = make_query_count(iter.qry, out)]
                    page == out.value.v["data"].v
                IN  /\ calls' = <<Call(ListRequest(iter.qry,
                                                   iter.page_number + 1, None),
                                       out)>>
                    /\ sent' = Request("GET", <<"billogram">>, None)
                    /\ resp' = r
                    /\ expect' = ExpectNone
                    /\ IF make_query(out).kind = "raise"
                       THEN /\ iter' = [iter EXCEPT !.pc = "failed"]
                            /\ outcome' = make_query(out)
                            /\ hist' = [hist EXCEPT !.fetched = @ + 1]
                       ELSE IF page = << >>
                       THEN /\ iter' = [iter EXCEPT
                                          !.qry = qry,
                                          !.page_number = @ + 1]
                            /\ outcome' = NoOutcome
                            /\ hist' = [hist EXCEPT !.fetched = @ + 1]
                       ELSE /\ iter' = [iter EXCEPT
                                          !.pc = "suspended",
                                          !.qry = qry,
                                          !.page_number = @ + 1,
                                          !.page = Tail(page)]
                            /\ outcome' = Return(Head(page))
                            /\ hist' = [hist EXCEPT
                                          !.fetched = @ + 1,
                                          !.unyielded = Tail(@ \o page)]

\* lines 600-601, next() at the yield: the next object of the page, or on
\* to the next page
IterNext ==
    /\ iter.pc = "suspended"
    /\ lastOp' = "next"
    /\ calls' = << >>
    /\ UNCHANGED <<resp, expect, pc, obj_kind, obj_data, sent, query>>
    /\ IF iter.page # << >>
       THEN /\ iter' = [iter EXCEPT !.page = Tail(@)]
            /\ outcome' = Return(Head(iter.page))
            /\ hist' = [hist EXCEPT !.unyielded = Tail(@)]
       ELSE /\ iter' = [iter EXCEPT !.pc = "loop"]
            /\ outcome' = NoOutcome
            /\ hist' = hist

\* the generator exists and is not inside a next() call
CallerRuns == iter.pc \notin {"none", "loop"}

\* the caller sets the filter, the order or the page size of the original
\* query while the generator exists
TamperFilter ==
    /\ CallerRuns
    /\ AssignFilter("filter", F(Str("special"), Str("search"), Str("v2")))

TamperOrder == CallerRuns /\ AssignOrder(O(Str("id"), Str("asc")))

TamperPageSize == CallerRuns /\ AssignPageSize(Num(3))

InitIter ==
    /\ resp = NoResp
    /\ expect = ExpectNone
    /\ outcome = NoOutcome
    /\ lastOp = "-"
    /\ sent = NoRequest
    /\ pc = "idle"
    /\ calls = << >>
    /\ query \in IterQueries
    /\ iter = NoIter
    /\ obj_kind = "billogram"
    /\ obj_data = None
    /\ hist = NoHist

NextIter ==
    \/ IterAll
    \/ IterStart
    \/ IterFetch
    \/ IterNext
    \/ TamperFilter
    \/ TamperOrder
    \/ TamperPageSize

SpecIter == InitIter /\ [][NextIter]_vars

\* the consumer keeps asking for the next element until the generator ends
SpecIterFair == SpecIter /\ WF_vars(IterStart \/ IterFetch \/ IterNext)

(***************************************************************************)
(* Vocabulary of the properties                                            *)
(***************************************************************************)
Classified == pc = "classified"

\* the body parses to a JSON object
JsonEnvelope == IsJson(resp) /\ json(resp).t = "dict"

EnvStatus == Get(json(resp), "status")

EnvData == Get(json(resp), "data")

\* the envelope has a non-empty status and a data key
WellFormed ==
    /\ JsonEnvelope
    /\ Has(json(resp), "status") /\ EnvStatus.t = "str" /\ EnvStatus.v # ""
    /\ Has(json(resp), "data")

\* the response is announced as JSON and JSON is what the call expects
JsonExpected ==
    /\ resp.content_type = JSON
    /\ expect \in {ExpectNone, JSON} \/ resp.status_code >= 400

Is5xx == resp.status_code \in 500..599

Raised(c) == outcome.kind = "raise" /\ outcome.cls = c

RaisedApiError ==
    outcome.kind = "raise" /\ outcome.cls \in ApiErrorClasses

\* the error kind the status table of the specification gives
TableKind(st) ==
    CASE st \in {"MISSING_QUERY_PARAMETER", "INVALID_QUERY_PARAMETER"}
            -> "RequestFormError"
      [] st = "INVALID_PARAMETER" -> "InvalidFieldValueError"
      [] st = "INVALID_PARAMETER_COMBINATION" -> "InvalidFieldCombinationError"
      [] st = "READ_ONLY_PARAMETER" -> "ReadOnlyFieldError"
      [] st = "UNKNOWN_PARAMETER" -> "UnknownFieldError"
      [] st = "INVALID_OBJECT_STATE" -> "InvalidObjectStateError"
      [] OTHER -> "RequestDataError"

\* the raised error holds the data object's message, field, field_path and
\* all its other keys as extra data
CarriesData ==
    /\ outcome.message = Get(EnvData, "message")
    /\ outcome.field = Get(EnvData, "field")
    /\ outcome.field_path = Get(EnvData, "field_path")
    /\ outcome.extra_data =
         IF DOMAIN EnvData.v \subseteq {"message", "field", "field_path"}
         THEN None
         ELSE Dict([k \in DOMAIN EnvData.v \ {"message", "field", "field_path"}
                      |-> EnvData.v[k]])

\* the error holds a message of the library and nothing of the server
CarriesNothing ==
    /\ outcome.message.t \in {"lit", "fmt"}
    /\ outcome.field = None
    /\ outcome.field_path = None
    /\ outcome.extra_data = None

(***************************************************************************)
(* Properties                                                              *)
(***************************************************************************)
\* C1: a JSON response outside 5xx, 403, 404, 405 whose envelope has a
\* status other than OK and a data object raises the error kind of the
\* status table.
C1_TableKinds ==
    (/\ Classified /\ JsonExpected /\ ~Is5xx
     /\ resp.status_code \notin {403, 404, 405}
     /\ WellFormed /\ EnvData.t = "dict" /\ EnvStatus # Str("OK"))
    => Raised(TableKind(EnvStatus.v))

\* C2: a 404 response with a well-formed envelope raises
\* ObjectNotAvailableYetError when the status is NOT_AVAILABLE_YET and plain
\* ObjectNotFoundError otherwise.
C2_NotFoundKinds ==
    (Classified /\ resp.status_code = 404 /\ resp.content_type = JSON
     /\ WellFormed)
    => IF EnvStatus = Str("NOT_AVAILABLE_YET")
       THEN Raised("ObjectNotAvailableYetError")
       ELSE Raised("ObjectNotFoundError")

\* C3: get_invoice_pdf and get_attachment_pdf raise
\* ObjectNotAvailableYetError whenever the response is a JSON body with
\* status NOT_AVAILABLE_YET.
C3_PdfNotAvailableYet ==
    (/\ lastOp \in {"get_invoice_pdf", "get_attachment_pdf"}
     /\ sent.method = "GET"
     /\ sent.url[Len(sent.url)] \in {".pdf", "attachment.pdf"}
     /\ resp.content_type = JSON /\ JsonEnvelope
     /\ EnvStatus = Str("NOT_AVAILABLE_YET"))
    => Raised("ObjectNotAvailableYetError")

\* C4: a 403 response with a well-formed envelope raises NotAuthorizedError
\* for PERMISSION_DENIED, InvalidAuthenticationError for INVALID_AUTH,
\* RequestFormError (not a permission-denied kind) for MISSING_AUTH and
\* the generic PermissionDeniedError for every other status, OK included.
C4_ForbiddenKinds ==
    (Classified /\ resp.status_code = 403 /\ resp.content_type = JSON
     /\ WellFormed)
    => /\ outcome.kind = "raise"
       /\ outcome.cls =
            CASE EnvStatus.v = "PERMISSION_DENIED" -> "NotAuthorizedError"
              [] EnvStatus.v = "INVALID_AUTH" -> "InvalidAuthenticationError"
              [] EnvStatus.v = "MISSING_AUTH" -> "RequestFormError"
              [] OTHER -> "PermissionDeniedError"
       /\ EnvStatus.v = "MISSING_AUTH"
            => ~IsSubclass(outcome.cls, "PermissionDeniedError")
       /\ EnvStatus.v # "MISSING_AUTH"
            => IsSubclass(outcome.cls, "PermissionDeniedError")

\* a 403 response whose envelope says OK is still a permission error
C4_Witness ==
    /\ Classified /\ resp.status_code = 403 /\ resp.content_type = JSON
    /\ WellFormed /\ EnvStatus = Str("OK")
    /\ Raised("PermissionDeniedError")

\* C5: every 5xx response that has a content type raises
\* ServiceMalfunctioningError, whatever its body holds.
C5_ServerErrorAlways ==
    (Classified /\ Is5xx /\ HasContentType(resp))
    => Raised("ServiceMalfunctioningError")

\* C6: classification is total: for every response with a content type
\* whose body is a JSON object, the classifier returns or raises an error
\* of the BillogramAPIError kind.
C6_Total ==
    (Classified /\ HasContentType(resp) /\ JsonEnvelope)
    => \/ outcome.kind = "return"
       \/ outcome.kind = "raise"
          /\ IsSubclass(outcome.cls, "BillogramAPIError")

\* C7 as stated: every error raised for a JSON envelope whose data object
\* has a message carries that data, for every error kind.
C7_AllErrorsCarryData ==
    (/\ Classified /\ RaisedApiError /\ resp.content_type = JSON
     /\ WellFormed /\ EnvData.t = "dict" /\ Has(EnvData, "message"))
    => CarriesData

\* C7 amended: an error raised through the status table carries the data
\* object's message, field, field_path and other keys unchanged; every
\* other error of the classifier carries a message of the library and no
\* field, field_path or extra data.
C7_TableErrorsCarryData ==
    (Classified /\ RaisedApiError)
    => IF /\ JsonExpected /\ ~Is5xx
          /\ resp.status_code \notin {403, 404, 405}
          /\ WellFormed
       THEN EnvData.t = "dict" /\ Has(EnvData, "message") /\ CarriesData
       ELSE CarriesNothing

\* a table error whose data has a field, a field_path and an extra key
C7_Witness ==
    /\ Classified /\ Raised("InvalidFieldValueError")
    /\ resp.status_code = 400
    /\ outcome.field = Str("v1")
    /\ outcome.field_path = Str("v2")
    /\ outcome.message = Str("v2")
    /\ outcome.extra_data = Dict([details |-> Str("v1")])

\* C8 as stated: with a non-JSON expected content type that the response
\* has, every status code outside 5xx returns the raw body.
C8_RawForEveryCode ==
    (Classified /\ expect = PDF /\ resp.content_type = PDF /\ ~Is5xx)
    => outcome = Return(resp.content)

\* C8 amended: with a non-JSON expected content type that the response
\* has, a status code below 400 returns the raw body with no envelope
\* classification; a status code in 400..499 makes the classifier expect
\* JSON and raise ServiceMalfunctioningError.
C8_RawWhenOk ==
    (Classified /\ expect = PDF /\ resp.content_type = PDF /\ ~Is5xx)
    => IF resp.status_code < 400
       THEN outcome = Return(resp.content)
       ELSE /\ Raised("ServiceMalfunctioningError")
            /\ outcome.message =
                 Lit("Billogram API returned unexpected content type")

\* the raw body is returned although it is an envelope with an error status
C8_Witness ==
    /\ Classified /\ expect = PDF /\ resp.content_type = PDF
    /\ resp.status_code = 200
    /\ JsonEnvelope /\ EnvStatus = Str("INVALID_AUTH")
    /\ outcome = Return(resp.content)

\* C9: after a successful refresh, update or perform_event the snapshot is
\* exactly the data of that response.
C9_SnapshotReplaced ==
    (lastOp \in {"refresh", "update", "perform_event"}
     /\ outcome.kind = "return")
    => obj_data = json(resp).v["data"]

\* the request was built from a snapshot with id v1 and a payload with a
\* state; the response has neither, and neither is readable afterwards
C9_Witness ==
    /\ lastOp = "update" /\ outcome.kind = "return"
    /\ sent.url = <<"billogram", "v1">>
    /\ sent.body = Dict([state |-> Str("v2")])
    /\ obj_data = EmptyDict

\* C10: an update, refresh, delete or perform_event that ends in a
\* classified error leaves the snapshot as it was.
C10_ErrorKeepsSnapshot ==
    [][(/\ lastOp' \in {"refresh", "update", "delete", "perform_event"}
        /\ outcome'.kind = "raise"
        /\ outcome'.cls \in ApiErrorClasses)
       => obj_data' = obj_data]_vars

\* a PUT answered by 403 INVALID_AUTH on an object that holds a snapshot
C10_Witness ==
    /\ lastOp = "update" /\ Raised("InvalidAuthenticationError")
    /\ sent.method = "PUT"
    /\ resp = R(403, JSON, Env("INVALID_AUTH", EmptyDict))
    /\ obj_data = Dict([id |-> Str("v1"), state |-> Str("v2")])

\* C18: the classifier returns a decoded envelope exactly for a JSON
\* response outside 5xx, 403, 404 and 405 whose envelope has a non-empty
\* status, a data key and the status OK; a 403, 404 or 405 response is
\* always an error; outside 5xx a JSON envelope that lacks status or data
\* is a ServiceMalfunctioningError, for 403, 404 and 405 too.
C18_SuccessOnlyWhenOk ==
    Classified =>
      /\ (outcome.kind = "return" /\ outcome.value.t = "dict")
            <=> (/\ JsonExpected /\ ~Is5xx
                 /\ resp.status_code \notin {403, 404, 405}
                 /\ WellFormed /\ EnvStatus = Str("OK"))
      /\ (outcome.kind = "return" /\ outcome.value.t = "dict")
            => outcome.value = json(resp)
      /\ resp.status_code \in {403, 404, 405} => outcome.kind = "raise"
      /\ (JsonExpected /\ ~Is5xx /\ JsonEnvelope /\ ~WellFormed)
            => Raised("ServiceMalfunctioningError")

\* a 404 response whose envelope says OK but has no data key
C18_Witness ==
    /\ Classified /\ resp.status_code = 404 /\ resp.content_type = JSON
    /\ JsonEnvelope /\ EnvStatus = Str("OK") /\ ~Has(json(resp), "data")
    /\ Raised("ServiceMalfunctioningError")

\* C17: a read of data or of a field on an object without a snapshot
\* issues exactly one GET and stores the response data; once a fetch,
\* update or event has succeeded, a read issues no request.
C17_LazyNeverRefetched ==
    [][lastOp' \in {"data", "getitem", "getattr"}
       => /\ hist.loaded => calls' = << >>
          /\ (~hist.loaded /\ obj_data = None)
               => /\ Len(calls') = 1
                  /\ calls'[1].request.method = "GET"
                  /\ calls'[1].result.kind = "return"
                       => obj_data' = json(resp').v["data"]]_vars

\* the last call was create_and_send, its create succeeded and its send
\* failed with an error of the classifier
SendFailedAfterCreate ==
    /\ lastOp = "create_and_send"
    /\ Len(calls) >= 2
    /\ calls[1].result.kind = "return"
    /\ calls[2].result.kind = "raise"
    /\ calls[2].result.cls \in ApiErrorClasses

\* exactly one DELETE, for the URL of the created object, after the send
OneDeleteAfterSend ==
    /\ Len(calls) = 3
    /\ calls[3].request =
         Req("DELETE",
             url_of("billogram", calls[1].result.value.v["data"]).url,
             None, None)
    /\ calls[2].request.method = "POST"

\* C14: when create succeeds and send fails with a classified error,
\* exactly one DELETE for the created object's URL follows the failed send
\* and the caller gets the send error, whatever the delete request gave.
C14_SendErrorReachesCaller ==
    SendFailedAfterCreate
       => OneDeleteAfterSend /\ outcome = calls[2].result

\* C14 as amended: one DELETE follows; the caller gets the send error when
\* the delete succeeded and the error of the delete when it failed.
C14_SendErrorUnlessDeleteFails ==
    SendFailedAfterCreate
       => /\ OneDeleteAfterSend
          /\ calls[3].result.kind = "return" => outcome = calls[2].result
          /\ calls[3].result.kind = "raise" => outcome = calls[3].result

C14_Witness ==
    /\ SendFailedAfterCreate
    /\ OneDeleteAfterSend
    /\ calls[3].result.kind = "raise"
    /\ calls[3].result # calls[2].result
    /\ outcome = calls[3].result

\* the last call failed its local validation and issued no request
RejectedLocally == outcome = Untyped("AssertionError") /\ calls = << >>

\* C16: create_payment and credit_amount with amount <= 0, send and
\* create_and_send with a method outside Email, Letter, Email+Letter,
\* send_reminder and resend with a given (truthy) method outside Email,
\* Letter fail locally and issue no request at all.
C16_ValidatedBeforeRequest ==
    /\ (lastOp \in {"create_payment", "credit_amount"} /\ hist.arg.v <= 0)
          => RejectedLocally
    /\ (lastOp \in {"send", "create_and_send"}
          /\ hist.arg \notin {Str("Email"), Str("Letter"), Str("Email+Letter")})
          => RejectedLocally
    /\ (lastOp \in {"send_reminder", "resend"} /\ Truthy(hist.arg)
          /\ hist.arg \notin {Str("Email"), Str("Letter")})
          => RejectedLocally

C16_Witness ==
    /\ lastOp = "credit_amount" /\ hist.arg = Num(0)
    /\ RejectedLocally
    /\ url_of(obj_kind, obj_data).ok

\* C11: a count read issues exactly one request the first time after the
\* query is created or its filter changed, and none on every later read
\* until the filter changes again.
C11_OneRequestThenNone ==
    [][lastOp' = "count"
       => Len(calls') = (IF hist.read THEN 0 ELSE 1)]_vars

\* C11 as amended: a count read issues exactly one request when no list
\* response (of a count read or of get_page) has succeeded since the query
\* was created or its filter last changed, and none otherwise.
C11_OneRequestUnlessListed ==
    [][lastOp' = "count"
       => /\ Len(calls') = (IF hist.listed = None THEN 1 ELSE 0)
          /\ \A i \in 1..Len(calls') :
                calls'[i].request = ListRequest(query, 1, Num(1))]_vars

C11_Witness ==
    /\ lastOp = "count" /\ calls = << >> /\ hist.read /\ hist.listed # None
    /\ query.filter # EmptyDict

\* C15: assigning a non-empty filter that lacks filter_type, filter_field
\* or filter_value, or whose filter_type is not field, field-prefix,
\* field-search or special, fails locally and issues no request.
C15_BadFilterRejected ==
    (/\ lastOp \in {"filter", "make_filter", "remove_filter"}
     /\ hist.arg.t = "dict" /\ hist.arg # EmptyDict
     /\ \/ \E k \in {"filter_type", "filter_field", "filter_value"} :
              ~Has(hist.arg, k)
        \/ hist.arg.v["filter_type"] \notin
              {Str("field"), Str("field-prefix"), Str("field-search"),
               Str("special")})
    => outcome = Untyped("AssertionError") /\ calls = << >>

C15_Witness ==
    /\ lastOp = "filter" /\ hist.arg.t = "dict"
    /\ Has(hist.arg, "filter_type") /\ ~Has(hist.arg, "filter_field")
    /\ outcome = Untyped("AssertionError")
    /\ calls = << >> /\ query.filter # EmptyDict

\* C20: the cached count is absent or equal to the total_count of the most
\* recent successful list response since the filter last changed; a count
\* read that follows a successful list response (of get_page as of a count
\* read) with no filter change in between issues no request.
C20_CacheIsLatestTotal ==
    /\ [](query.count_cached = None \/ query.count_cached = hist.listed)
    /\ [][(hist.listed # None /\ lastOp' = "count") => calls' = << >>]_vars

\* get_page succeeded before any count read and the cache holds its total
C20_Witness ==
    /\ lastOp = "get_page" /\ outcome.kind = "return" /\ ~hist.read
    /\ query.count_cached = calls[1].result.value.v["meta"].v["total_count"]
    /\ query.count_cached = hist.listed

\* the least n with n * p >= c
Ceil(c, p) == CHOOSE n \in 0..c : n * p >= c /\ (n = 0 \/ (n - 1) * p < c)

\* the pages an iteration has to fetch: from the count it saw at its start
\* and the page size of its query
PagesAtStart == Ceil(hist.count.v, iter.qry.page_size)

\* the step is a page request of the iteration
PageRequested == lastOp' = "next" /\ iter.pc = "loop" /\ calls' # << >>

\* the objects of the page the step received, none without such a page
PageReceived ==
    IF PageRequested /\ calls'[1].result.kind = "return"
          /\ Has(calls'[1].result.value, "meta")
    THEN calls'[1].result.value.v["data"].v
    ELSE << >>

\* C12: the requests of an iteration carry the filter, order and page size
\* the query had when iter_all() was called, whatever is assigned to the
\* original query afterwards.
C12_SnapshotAtCall ==
    [][lastOp' = "next"
       => \A i \in 1..Len(calls') :
             \E k \in 1..MaxCount, size \in {None, Num(1)} :
                calls'[i].request = ListRequest(hist.at_call, k, size)]_vars

\* C13: with page size P and count C the iteration requests the pages
\* 1, 2, ..., N = ceil(C / P) in this order, each once; each yield gives the
\* oldest object received and not yet yielded, so objects come in the
\* server's order, page by page; at the end every received object was
\* yielded.
C13_PagesInOrder ==
    /\ [][PageRequested
          => /\ calls'[1].request.params.v["page"] = Num(hist.fetched + 1)
             /\ calls'[1].request.params.v["page_size"]
                   = Num(iter.qry.page_size)
             /\ hist.fetched + 1 <= PagesAtStart
             /\ hist'.fetched = hist.fetched + 1]_vars
    /\ [][(lastOp' = "next" /\ outcome'.kind = "return")
          => /\ hist.unyielded \o PageReceived # << >>
             /\ outcome'.value = Head(hist.unyielded \o PageReceived)
             /\ hist'.unyielded = Tail(hist.unyielded \o PageReceived)]_vars
    /\ [](iter.pc = "done"
            => hist.fetched = PagesAtStart /\ hist.unyielded = << >>)

C13_Witness ==
    /\ iter.pc = "done" /\ hist.fetched = 2 /\ hist.count = Num(MaxCount)
    /\ iter.qry.page_size = 2

\* C19: iter_all() issues no request, none is issued before the first
\* element is requested, the iteration never requests more than
\* ceil(count / page_size) pages for the count it saw at its start, also
\* when a page reports a larger total_count, and it ends.
C19_LazyAndFinite ==
    /\ [][(lastOp' = "iter_all" \/ (iter.pc = "created" /\ lastOp' # "next"))
          => calls' = << >>]_vars
    /\ [](hist.count # None => hist.fetched <= PagesAtStart)
    /\ [](iter.pc = "done" => hist.fetched = PagesAtStart)
    /\ (iter.pc = "created") ~> (iter.pc \in {"done", "failed"})

\* an iteration ended although a page reported more objects than the count
\* it started from
C19_Witness ==
    /\ iter.pc = "done" /\ hist.count # None /\ hist.fetched >= 1
    /\ iter.qry.count_cached.v > hist.count.v

\* the last call was an assignment to filter, order or page_size
Assigned == lastOp' \in {"filter", "order", "page_size"}

\* the filter is empty or complete with an allowed type
FilterWellFormed ==
    \/ query.filter = EmptyDict
    \/ /\ \A k \in {"filter_type", "filter_field", "filter_value"} :
             Has(query.filter, k)
       /\ query.filter.v["filter_type"] \in
             {Str("field"), Str("field-prefix"), Str("field-search"),
              Str("special")}

\* the order is empty or has an allowed direction
OrderWellFormed ==
    \/ query.order = EmptyDict
    \/ /\ Has(query.order, "order_direction")
       /\ query.order.v["order_direction"] \in {Str("asc"), Str("desc")}

\* C21: a rejected assignment to filter, order or page_size leaves filter,
\* order, page size and cached count unchanged; the page size is 100 at
\* first and always >= 1, the filter is always empty or complete with an
\* allowed type, the order always empty or with direction asc or desc.
C21_RejectedLeavesQuery ==
    /\ query.page_size = 100
    /\ [][(Assigned /\ outcome'.kind = "raise") => query' = query]_vars
    /\ [](query.page_size >= 1 /\ FilterWellFormed /\ OrderWellFormed)

\* an order without direction was rejected on a query that has a filter,
\* an order, a page size of its own and a cached count
C21_Witness ==
    /\ lastOp = "order" /\ outcome = Untyped("AssertionError")
    /\ hist.arg.t = "dict" /\ ~Has(hist.arg, "order_direction")
    /\ query.order # EmptyDict /\ query.filter # EmptyDict
    /\ query.page_size = 3 /\ query.count_cached # None

\* the calls of make_filter and of its helpers
MakeOps ==
    {"make_filter", "filter_field", "filter_prefix", "filter_search",
     "filter_special", "search"}

\* the filter the claim expects of the arguments a: empty when one of them
\* is None, else exactly the three
ExpectedFilter(a) ==
    IF a[1] = None \/ a[2] = None \/ a[3] = None
    THEN EmptyDict
    ELSE Dict([filter_type |-> a[1], filter_field |-> a[2],
               filter_value |-> a[3]])

\* the filter parameters a request carries
FilterParams(params) ==
    Dict([k \in DOMAIN params.v \cap
                  {"filter_type", "filter_field", "filter_value"}
            |-> params.v[k]])

\* a changed filter clears the cached count, and nothing else changes
MakeFilterEffect ==
    lastOp' \in MakeOps
       => IF query'.filter # query.filter
          THEN query' = [query EXCEPT !.filter = query'.filter,
                                      !.count_cached = None]
          ELSE query' = query

\* the count or get_page request right after the call carries the filter
FollowingRequest ==
    (lastOp \in MakeOps /\ lastOp' \in {"count", "get_page"}
       /\ calls' # << >>)
       => FilterParams(calls'[1].request.params) = query.filter

\* make_filter was given three arguments none of which is None and a type
\* that is not one of the four
BadTypeGiven ==
    /\ lastOp = "make_filter"
    /\ ExpectedFilter(hist.arg.v) # EmptyDict
    /\ hist.arg.v[1] \notin {Str("field"), Str("field-prefix"),
                             Str("field-search"), Str("special")}

\* C22: make_filter and the helpers filter_field, filter_prefix,
\* filter_search, filter_special and search never reject: the filter
\* becomes empty when an argument is None and exactly the given type, field
\* and value otherwise, the cached count is cleared if the filter changed,
\* and the following count or get_page request carries that filter.
C22_HelpersNeverReject ==
    /\ [](lastOp \in MakeOps
            => /\ outcome.kind = "return"
               /\ query.filter = ExpectedFilter(hist.arg.v))
    /\ [][MakeFilterEffect]_vars
    /\ [][FollowingRequest]_vars

\* C22 as amended: the same, except that make_filter with three arguments
\* and a type outside the four is rejected locally, without a request and
\* with the query unchanged.
C22_OnlyBadTypeRejected ==
    /\ [](lastOp \in MakeOps
            => IF BadTypeGiven
               THEN outcome = Untyped("AssertionError") /\ calls = << >>
               ELSE /\ outcome.kind = "return"
                    /\ query.filter = ExpectedFilter(hist.arg.v))
    /\ [][(lastOp' \in MakeOps /\ outcome'.kind = "raise")
             => query' = query]_vars
    /\ [][MakeFilterEffect]_vars
    /\ [][FollowingRequest]_vars

\* filter_search set a filter, and the count request after it carried it
C22_Witness ==
    /\ lastOp = "count" /\ calls # << >>
    /\ query.filter = Dict([filter_type |-> Str("field-search"),
                            filter_field |-> Str("state"),
                            filter_value |-> Str("v1")])
    /\ FilterParams(calls[1].request.params) = query.filter
    /\ hist.arg.t = "args" /\ hist.arg.v[1] = Str("field-search")

TypeOK ==
    /\ outcome.kind \in {"none", "return", "raise"}
    /\ outcome.kind = "raise" => outcome.cls \in ApiErrorClasses \cup UntypedErrors
====
